---- MODULE Spec2Model ----
(***************************************************************************)
(* A model of mailgun_v3: Credentials construction (src/src/lib.rs), the   *)
(* mapping of a Message to form parameters (src/src/email.rs) and the      *)
(* dispatch functions of email.rs, validation.rs and templates.rs.         *)
(*                                                                         *)
(* Strings are TLA+ strings (ASCII); Option<T> is a sequence of length at  *)
(* most one (<<>> is None, <<x>> is Some(x)); a HashMap<String, String> is *)
(* a function whose domain is its key set.                                 *)
(***************************************************************************)
EXTENDS Integers, Sequences, FiniteSets, TLC

VARIABLES
    cargs,    \* arguments handed to the Credentials constructor
    cstage,   \* "start" | "constructed" | "panicked"
    cout,     \* Option<Credentials>: the value the constructor returned
    msg,      \* the Message handed to to_params
    pstage,   \* "start" | "mapped" | "submitted"
    params,   \* the HashMap to_params returned, or the form a send submitted
    psender,  \* the sender handed to send_with_request_builder with msg
    creds,    \* the Credentials shared by all dispatch calls
    calls,    \* per call: its arguments, position and result
    wire,     \* per call: the requests it put on the network, in order
    server    \* per call: what the network/server answered to its request

vars == <<cargs, cstage, cout, msg, pstage, params, psender, creds, calls, wire, server>>

credVars == <<cargs, cstage, cout>>
paramVars == <<msg, pstage, params, psender>>
callVars == <<creds, calls, wire, server>>

-----------------------------------------------------------------------------
(* Strings, Option and HashMap helpers                                     *)

None == <<>>
Some(x) == <<x>>
IsSome(o) == Len(o) = 1
Unwrap(o) == o[1]

\* str::starts_with
StartsWith(s, prefix) ==
    /\ Len(s) >= Len(prefix)
    /\ SubSeq(s, 1, Len(prefix)) = prefix

\* s.chars().filter(|c| *c == ch).count()
CountChar(s, ch) == Cardinality({i \in 1..Len(s) : SubSeq(s, i, i) = ch})

EmptyMap == <<>>

\* HashMap::insert: the key is added, or its value replaced
Insert(m, k, v) == [x \in (DOMAIN m) \cup {k} |-> IF x = k THEN v ELSE m[x]]

RECURSIVE Join(_, _)
\* [String]::join(sep)
Join(strs, sep) ==
    IF Len(strs) = 0 THEN ""
    ELSE IF Len(strs) = 1 THEN strs[1]
    ELSE strs[1] \o sep \o Join(Tail(strs), sep)

-----------------------------------------------------------------------------
(* lib.rs: Credentials                                                     *)

MAILGUN_DEFAULT_API == "https://api.mailgun.net/v3"
EU_API == "https://api.eu.mailgun.net/v3"

MinKeyLen == 35

\* with_base with the key check written > instead of >=
with_base_key_off_by_one(api_base, api_key, domain) ==
    IF ~ StartsWith(api_base, "http") THEN None
    ELSE IF ~ (CountChar(api_base, ".") >= 1) THEN None
    ELSE IF ~ (Len(api_key) > MinKeyLen) THEN None
    ELSE IF ~ (CountChar(domain, ".") >= 1) THEN None
    ELSE Some([api_base |-> api_base, api_key |-> api_key, domain |-> domain])

\* Credentials::with_base: four assert!s, then the struct. A failed assert!
\* panics: no value is returned (None here).
with_base(api_base, api_key, domain) ==
    IF ~ StartsWith(api_base, "http") THEN None
    ELSE IF ~ (CountChar(api_base, ".") >= 1) THEN None
    ELSE IF ~ (Len(api_key) >= MinKeyLen) THEN None
    ELSE IF ~ (CountChar(domain, ".") >= 1) THEN None
    ELSE Some([api_base |-> api_base, api_key |-> api_key, domain |-> domain])

\* Credentials::new
new(api_key, domain) == with_base(MAILGUN_DEFAULT_API, api_key, domain)

\* Inputs of the constructor
KeyOfExample == "key-abc1234567890"
KeyOfUnauthorizedTest == "key-your_key_here"
KeyOfValidationTest == "something-secret-something-safe"
KeyOfTemplatesTest == "xxxxxxxx-yyyyyyyyy-zzzzzzzz"
KeyOfBuilderTest == "0123456789abcdef0123456789abcdef-01234567-89abcdef"
Key34 == "0123456789abcdef0123456789abcdef-0"
Key35 == "0123456789abcdef0123456789abcdef-01"

BaseInputs ==
    { MAILGUN_DEFAULT_API, EU_API, "http://mailgun.test/v3", "http://localhost:8080",
      "https://localhost", "api.mailgun.net/v3", "ftp://api.mailgun.net/v3",
      "httpapi.mailgun.net", "" }

KeyInputs ==
    { KeyOfExample, KeyOfUnauthorizedTest, KeyOfValidationTest, KeyOfTemplatesTest,
      KeyOfBuilderTest, Key34, Key35, "" }

DomainInputs ==
    { "example.org", "aksdfa32undkjns.com", "not needed", "localhost",
      "sandbox0123456789abcdef0123456789abcdef.mailgun.org", "" }

CredArgs ==
    [ctor : {"with_base"}, api_base : BaseInputs, api_key : KeyInputs, domain : DomainInputs]
    \cup
    [ctor : {"new"}, api_base : {MAILGUN_DEFAULT_API}, api_key : KeyInputs, domain : DomainInputs]

\* The constructor calls the repository's example and tests make
ExampleArgs ==
    [ctor |-> "with_base", api_base |-> EU_API, api_key |-> KeyOfExample,
     domain |-> "example.org"]
UnauthorizedTestArgs ==
    [ctor |-> "new", api_base |-> MAILGUN_DEFAULT_API, api_key |-> KeyOfUnauthorizedTest,
     domain |-> "aksdfa32undkjns.com"]
ValidationTestArgs ==
    [ctor |-> "new", api_base |-> MAILGUN_DEFAULT_API, api_key |-> KeyOfValidationTest,
     domain |-> "not needed"]

CredInit ==
    /\ cargs \in CredArgs
    /\ cstage = "start"
    /\ cout = None

\* A caller runs Credentials::with_base(api_base, api_key, domain)
CredentialsWithBase ==
    /\ cstage = "start"
    /\ cargs.ctor = "with_base"
    /\ cout' = with_base(cargs.api_base, cargs.api_key, cargs.domain)
    /\ cstage' = IF IsSome(cout') THEN "constructed" ELSE "panicked"
    /\ UNCHANGED cargs

\* A caller runs Credentials::new(api_key, domain)
CredentialsNew ==
    /\ cstage = "start"
    /\ cargs.ctor = "new"
    /\ cout' = new(cargs.api_key, cargs.domain)
    /\ cstage' = IF IsSome(cout') THEN "constructed" ELSE "panicked"
    /\ UNCHANGED cargs

\* The statement after the constructor call (send_email in the example and in
\* tests::request_unauthorized, validate_email in tests::run_validate_email) is
\* reached only when the constructor returned.
DispatchAfterConstruction ==
    /\ cstage = "constructed"
    /\ cstage' = "dispatched"
    /\ UNCHANGED <<cargs, cout>>

-----------------------------------------------------------------------------
(* lib.rs: EmailAddress                                                    *)

\* EmailAddress::address
address(addr) == [name |-> None, address |-> addr]

\* EmailAddress::name_address
name_address(name, addr) == [name |-> Some(name), address |-> addr]

\* EmailAddress::to_string
to_string(e) ==
    IF IsSome(e.name) THEN Unwrap(e.name) \o " <" \o e.address \o ">"
    ELSE e.address

-----------------------------------------------------------------------------
(* chrono: DateTime<Utc>::to_rfc2822, for instants given in epoch seconds  *)

Digit(d) == SubSeq("0123456789", d + 1, d + 1)
Pad2(n) == Digit((n \div 10) % 10) \o Digit(n % 10)
Pad4(n) == Pad2(n \div 100) \o Pad2(n % 100)

ShortWeekdays == <<"Sun", "Mon", "Tue", "Wed", "Thu", "Fri", "Sat">>
ShortMonths ==
    <<"Jan", "Feb", "Mar", "Apr", "May", "Jun", "Jul", "Aug", "Sep", "Oct", "Nov", "Dec">>

\* The civil date <<year, month, day>> of a day count since 1970-01-01
CivilFromDays(days) ==
    LET z == days + 719468
        era == z \div 146097
        doe == z - era * 146097
        yoe == (doe - doe \div 1460 + doe \div 36524 - doe \div 146096) \div 365
        doy == doe - (365 * yoe + yoe \div 4 - yoe \div 100)
        mp == (5 * doy + 2) \div 153
        d == doy - (153 * mp + 2) \div 5 + 1
        m == IF mp < 10 THEN mp + 3 ELSE mp - 9
        y == yoe + era * 400 + (IF m <= 2 THEN 1 ELSE 0)
    IN  <<y, m, d>>

to_rfc2822(secs) ==
    LET days == secs \div 86400
        rem == secs % 86400
        ymd == CivilFromDays(days)
    IN  ShortWeekdays[((days + 4) % 7) + 1] \o ", " \o Pad2(ymd[3]) \o " "
        \o ShortMonths[ymd[2]] \o " " \o Pad4(ymd[1]) \o " "
        \o Pad2(rem \div 3600) \o ":" \o Pad2((rem % 3600) \div 60) \o ":"
        \o Pad2(rem % 60) \o " +0000"

-----------------------------------------------------------------------------
(* email.rs: MessageBody, SendOptions, Message                             *)

Html(c) == <<"Html", c>>
Text(c) == <<"Text", c>>
HtmlAndText(html, text) == <<"HtmlAndText", html, text>>

TestMode == <<"TestMode">>
DeliveryTime(instant) == <<"DeliveryTime", instant>>
Header(header, val) == <<"Header", header, val>>
Tag(tag) == <<"Tag", tag>>

\* MessageBody::add_to
body_add_to(body, m) ==
    IF body[1] = "Html" THEN Insert(m, "html", body[2])
    ELSE IF body[1] = "Text" THEN Insert(m, "text", body[2])
    ELSE Insert(Insert(m, "html", body[2]), "text", body[3])

\* The pair of a Header option keyed "h" and the header name, without the colon
option_pair_no_colon(opt) ==
    IF opt[1] = "TestMode" THEN <<"o:testmode", "yes">>
    ELSE IF opt[1] = "DeliveryTime" THEN <<"o:deliverytime", to_rfc2822(opt[2])>>
    ELSE IF opt[1] = "Header" THEN <<"h" \o opt[2], opt[3]>>
    ELSE <<"o:tag", opt[2]>>

\* The (key, value) pair SendOptions::add_to computes
option_pair(opt) ==
    IF opt[1] = "TestMode" THEN <<"o:testmode", "yes">>
    ELSE IF opt[1] = "DeliveryTime" THEN <<"o:deliverytime", to_rfc2822(opt[2])>>
    ELSE IF opt[1] = "Header" THEN <<"h:" \o opt[2], opt[3]>>
    ELSE <<"o:tag", opt[2]>>

\* add_to that keeps the value already stored under the key
option_add_to_first_wins(opt, m) ==
    IF option_pair(opt)[1] \in DOMAIN m THEN m
    ELSE Insert(m, option_pair(opt)[1], option_pair(opt)[2])

\* SendOptions::add_to
option_add_to(opt, m) == Insert(m, option_pair(opt)[1], option_pair(opt)[2])

RECURSIVE add_options(_, _)
\* for opt in self.options { opt.add_to(&mut params) }
add_options(opts, m) ==
    IF Len(opts) = 0 THEN m
    ELSE add_options(Tail(opts), option_add_to(Head(opts), m))

\* addresses.iter().map(EmailAddress::to_string).collect()
RenderAll(addresses) == [i \in 1..Len(addresses) |-> to_string(addresses[i])]

\* add_recipients that inserts the key for an empty list too
add_recipients_always(field, addresses, m) ==
    Insert(m, field, Join(RenderAll(addresses), ","))

\* Message::add_recipients
add_recipients(field, addresses, m) ==
    IF Len(addresses) # 0 THEN Insert(m, field, Join(RenderAll(addresses), ","))
    ELSE m

\* to_params that stores the subject only when it is not empty
to_params_skip_empty_subject(message) ==
    LET p1 == add_recipients("to", message.to, EmptyMap)
        p2 == add_recipients("cc", message.cc, p1)
        p3 == add_recipients("bcc", message.bcc, p2)
        p4 == IF message.subject = "" THEN p3 ELSE Insert(p3, "subject", message.subject)
        p5 == body_add_to(message.body, p4)
    IN  add_options(message.options, p5)

\* Message::to_params
to_params(message) ==
    LET p1 == add_recipients("to", message.to, EmptyMap)
        p2 == add_recipients("cc", message.cc, p1)
        p3 == add_recipients("bcc", message.bcc, p2)
        p4 == Insert(p3, "subject", message.subject)
        p5 == body_add_to(message.body, p4)
    IN  add_options(message.options, p5)

-----------------------------------------------------------------------------
(* Inputs of to_params                                                     *)

MaxRecipients == 2
MaxOptions == 2

SeqUpTo(S, n) == UNION {[1..k -> S] : k \in 0..n}

AddressInputs == {address("foo@bar.com"), name_address("Tim", "woo@woah.com")}

\* 1970-01-17 13:40:48 (tests::send_options) and 2015-05-15 00:00:00
InstantInputs == {1431648, 1431648000}

OptionInputs ==
    {TestMode, Tag("Important"), Header("X-For", "Fizz"), Header("X-For", "Buzz"),
     Header("tml", "x")}
    \cup {DeliveryTime(t) : t \in InstantInputs}

BodyInputs == {Html("<body/>"), Text("hello"), HtmlAndText("<body/>", "hello")}

SubjectInputs == {"", "Test email"}

RecipientInputs ==
    {r \in [to : SeqUpTo(AddressInputs, MaxRecipients),
            cc : SeqUpTo(AddressInputs, MaxRecipients),
            bcc : SeqUpTo(AddressInputs, MaxRecipients)] :
        Len(r.to) + Len(r.cc) + Len(r.bcc) <= MaxRecipients}

MessageInputs ==
    {[to |-> r.to, cc |-> r.cc, bcc |-> r.bcc, subject |-> s, body |-> b, options |-> o] :
        r \in RecipientInputs, s \in SubjectInputs, b \in BodyInputs,
        o \in SeqUpTo(OptionInputs, MaxOptions)}

ParamInit ==
    /\ msg \in MessageInputs
    /\ pstage = "start"
    /\ params = EmptyMap
    /\ psender = <<>>

\* A caller runs msg.to_params()
ToParams ==
    /\ pstage = "start"
    /\ params' = to_params(msg)
    /\ pstage' = "mapped"
    /\ UNCHANGED <<msg, psender>>

-----------------------------------------------------------------------------
(* reqwest: RequestBuilder, Response and the errors of MailgunResult       *)

\* Client::post(url) / Client::get(url): a request with nothing attached yet
client_post(url) == [method |-> "POST", url |-> url, auth |-> None, form |-> None]
client_get(url) == [method |-> "GET", url |-> url, auth |-> None, form |-> None]

\* RequestBuilder::basic_auth(username, password)
basic_auth(rb, username, password) == [rb EXCEPT !.auth = Some(<<username, password>>)]

\* RequestBuilder::form(&params)
form(rb, p) == [rb EXCEPT !.form = Some(p)]

Ok(v) == [tag |-> "Ok", value |-> Some(v), kind |-> "", status |-> None]
Err(kind, status) == [tag |-> "Err", value |-> None, kind |-> kind, status |-> status]

\* RequestBuilder::send(): the transport's answer, Err on a transport failure
send(answer) ==
    IF answer.transport = "error" THEN Err("transport", None)
    ELSE Ok([status |-> answer.status, body |-> answer.body])

\* error_for_status that lets every status through
error_for_status_never(res) == Ok(res)

\* Response::error_for_status(): Err for a client (4xx) or server (5xx) error
\* status, the response itself for every other status
error_for_status(res) ==
    IF res.status >= 400 /\ res.status <= 599 THEN Err("status", Some(res.status))
    ELSE Ok(res)

\* serde: a struct is deserialized from a JSON object that has its required fields
HasFields(j, fields) == fields \subseteq DOMAIN j

\* Option<T> field of a struct: None when the key is missing
OptionalField(j, k) == IF k \in DOMAIN j THEN Some(j[k]) ELSE None

-----------------------------------------------------------------------------
(* Response types                                                          *)

\* email.rs: SendResponse
json_SendResponse(j) ==
    IF HasFields(j, {"message", "id"}) THEN Some([message |-> j.message, id |-> j.id])
    ELSE None

\* validation.rs: ValidationResponse
json_ValidationResponse(j) ==
    IF HasFields(j, {"address", "is_disposable_address", "is_role_address", "is_valid"})
    THEN Some([address |-> j.address,
               did_you_mean |-> OptionalField(j, "did_you_mean"),
               is_disposable_address |-> j.is_disposable_address,
               is_role_address |-> j.is_role_address,
               is_valid |-> j.is_valid,
               parts |-> OptionalField(j, "parts"),
               reason |-> OptionalField(j, "reason")])
    ELSE None

\* templates.rs: VersionResponse (rename_all = "camelCase")
json_VersionResponse(j) ==
    IF HasFields(j, {"createdAt", "engine", "tag", "comment", "mjml", "active"})
    THEN Some([created_at |-> j.createdAt, engine |-> j.engine, tag |-> j.tag,
               comment |-> j.comment, mjml |-> j.mjml,
               template |-> OptionalField(j, "template"),
               id |-> OptionalField(j, "id"), active |-> j.active])
    ELSE None

\* templates.rs: TemplateResponse (rename_all = "camelCase"); a version or a
\* versions key that is present has to deserialize too
json_TemplateResponse(j) ==
    IF /\ HasFields(j, {"createdAt", "createdBy", "description", "name", "id"})
       /\ ("version" \in DOMAIN j => IsSome(json_VersionResponse(j.version)))
       /\ ("versions" \in DOMAIN j =>
              \A i \in 1..Len(j.versions) : IsSome(json_VersionResponse(j.versions[i])))
    THEN Some([created_at |-> j.createdAt, created_by |-> j.createdBy,
               description |-> j.description, name |-> j.name, id |-> j.id,
               version |-> IF "version" \in DOMAIN j
                           THEN json_VersionResponse(j.version) ELSE None,
               versions |-> IF "versions" \in DOMAIN j
                            THEN Some([i \in 1..Len(j.versions) |->
                                          Unwrap(json_VersionResponse(j.versions[i]))])
                            ELSE None])
    ELSE None

\* templates.rs: CreateTemplateResponse
json_CreateTemplateResponse(j) ==
    IF HasFields(j, {"message", "template"}) /\ IsSome(json_TemplateResponse(j.template))
    THEN Some([message |-> j.message,
               template |-> Unwrap(json_TemplateResponse(j.template))])
    ELSE None

\* templates.rs: GetSingleTemplateResponse
json_GetSingleTemplateResponse(j) ==
    IF HasFields(j, {"template"}) /\ IsSome(json_TemplateResponse(j.template))
    THEN Some([template |-> Unwrap(json_TemplateResponse(j.template))])
    ELSE None

\* templates.rs: GetTemplatesResponse
json_GetTemplatesResponse(j) ==
    IF HasFields(j, {"items"})
       /\ \A i \in 1..Len(j.items) : IsSome(json_TemplateResponse(j.items[i]))
    THEN Some([items |-> [i \in 1..Len(j.items) |->
                            Unwrap(json_TemplateResponse(j.items[i]))]])
    ELSE None

-----------------------------------------------------------------------------
(* The request each dispatch function builds and hands to send()           *)

MAILGUN_API == "https://api.mailgun.net/v3"
MESSAGES_ENDPOINT == "messages"
VALIDATION_ENDPOINT == "address/private/validate"
TEMPLATES_ENDPOINT == "templates"
TEMPLATE_VERSIONS_ENDPOINT == "versions"

\* email.rs: send_with_request_builder, up to send()
send_with_request_builder(request_builder, c, sender, message) ==
    LET p == Insert(to_params(message), "from", to_string(sender))
    IN  form(basic_auth(request_builder, "api", Some(c.api_key)), p)

\* send_with_client that forgets the sender
send_with_client_no_from(c, sender, message) ==
    form(basic_auth(client_post(MAILGUN_API \o "/" \o c.domain \o "/" \o MESSAGES_ENDPOINT),
                    "api", Some(c.api_key)),
         to_params(message))

\* email.rs: send_with_client
send_with_client(c, sender, message) ==
    LET url == MAILGUN_API \o "/" \o c.domain \o "/" \o MESSAGES_ENDPOINT
    IN  send_with_request_builder(client_post(url), c, sender, message)

\* email.rs: send_email
send_email(c, sender, message) == send_with_client(c, sender, message)

\* async_impl::send_with_request_builder that submits the message without its sender
async_send_with_request_builder_no_sender(request_builder, c, sender, message) ==
    form(basic_auth(request_builder, "api", Some(c.api_key)), to_params(message))

\* email.rs: async_impl::send_with_request_builder, up to send()
async_send_with_request_builder(request_builder, c, sender, message) ==
    LET p == Insert(to_params(message), "from", to_string(sender))
    IN  form(basic_auth(request_builder, "api", Some(c.api_key)), p)

\* email.rs: async_impl::send_with_client
async_send_with_client(c, sender, message) ==
    LET url == MAILGUN_API \o "/" \o c.domain \o "/" \o MESSAGES_ENDPOINT
    IN  async_send_with_request_builder(client_post(url), c, sender, message)

\* email.rs: async_impl::send_email
async_send_email(c, sender, message) == async_send_with_client(c, sender, message)

\* validation.rs: validate_email_with_client, up to send()
validate_email_with_client(c, addr) ==
    LET url == MAILGUN_API \o "/" \o VALIDATION_ENDPOINT
        p == Insert(EmptyMap, "address", addr)
    IN  form(basic_auth(client_get(url), "api", Some(c.api_key)), p)

\* validation.rs: validate_email
validate_email(c, addr) == validate_email_with_client(c, addr)

\* templates.rs: Template::into_params
into_params(t) ==
    LET p1 == Insert(Insert(EmptyMap, "name", t.name), "description", t.description)
        p2 == IF IsSome(t.template) THEN Insert(p1, "template", Unwrap(t.template)) ELSE p1
        p3 == IF IsSome(t.tag) THEN Insert(p2, "tag", Unwrap(t.tag)) ELSE p2
        p4 == IF IsSome(t.engine) THEN Insert(p3, "engine", Unwrap(t.engine)) ELSE p3
    IN  IF IsSome(t.comment) THEN Insert(p4, "comment", Unwrap(t.comment)) ELSE p4

\* templates.rs: create_template_with_request_builder, up to send()
create_template_with_request_builder(request_builder, c, template) ==
    form(basic_auth(request_builder, "api", Some(c.api_key)), into_params(template))

\* templates.rs: create_template_with_client
create_template_with_client(c, template) ==
    LET url == c.api_base \o "/" \o c.domain \o "/" \o TEMPLATES_ENDPOINT
    IN  create_template_with_request_builder(client_post(url), c, template)

\* templates.rs: create_template
create_template(c, template) == create_template_with_client(c, template)

\* get_templates_with_request_builder that sends the builder as it was supplied
get_templates_with_request_builder_as_supplied(request_builder, c, template_name) ==
    request_builder

\* templates.rs: get_templates_with_request_builder, up to send()
get_templates_with_request_builder(request_builder, c, template_name) ==
    basic_auth(request_builder, "api", Some(c.api_key))

\* get_templates_with_client with the do_fetch_versions test inverted
get_templates_with_client_flag_inverted(c, template_name, do_fetch_versions) ==
    LET url ==
            IF IsSome(template_name) THEN
                IF ~ do_fetch_versions
                THEN c.api_base \o "/" \o c.domain \o "/" \o TEMPLATES_ENDPOINT \o "/"
                     \o Unwrap(template_name) \o "/" \o TEMPLATE_VERSIONS_ENDPOINT
                ELSE c.api_base \o "/" \o c.domain \o "/" \o TEMPLATES_ENDPOINT \o "/"
                     \o Unwrap(template_name)
            ELSE c.api_base \o "/" \o c.domain \o "/" \o TEMPLATES_ENDPOINT
    IN  get_templates_with_request_builder(client_get(url), c, template_name)

\* templates.rs: get_templates_with_client
get_templates_with_client(c, template_name, do_fetch_versions) ==
    LET url ==
            IF IsSome(template_name) THEN
                IF do_fetch_versions
                THEN c.api_base \o "/" \o c.domain \o "/" \o TEMPLATES_ENDPOINT \o "/"
                     \o Unwrap(template_name) \o "/" \o TEMPLATE_VERSIONS_ENDPOINT
                ELSE c.api_base \o "/" \o c.domain \o "/" \o TEMPLATES_ENDPOINT \o "/"
                     \o Unwrap(template_name)
            ELSE c.api_base \o "/" \o c.domain \o "/" \o TEMPLATES_ENDPOINT
    IN  get_templates_with_request_builder(client_get(url), c, template_name)

\* templates.rs: get_templates
get_templates(c, template_name, do_fetch_versions) ==
    get_templates_with_client(c, template_name, do_fetch_versions)

\* A deserializer picked by the shape of the body instead of template_name
json_for_get_templates_by_shape(template_name, j) ==
    IF "template" \in DOMAIN j THEN
        LET parsed == json_GetSingleTemplateResponse(j) IN
        IF IsSome(parsed) THEN Some([items |-> <<Unwrap(parsed).template>>]) ELSE None
    ELSE json_GetTemplatesResponse(j)

\* templates.rs: get_templates_with_request_builder, the deserializer it picks:
\* a single template wrapped into a list when a name was given, the list otherwise
json_for_get_templates(template_name, j) ==
    IF IsSome(template_name) THEN
        LET parsed == json_GetSingleTemplateResponse(j) IN
        IF IsSome(parsed) THEN Some([items |-> <<Unwrap(parsed).template>>]) ELSE None
    ELSE json_GetTemplatesResponse(j)

-----------------------------------------------------------------------------
(* Inputs of the dispatch functions and answers of the server              *)

NumCalls == 2
CallIds == 1..NumCalls

SandboxDomain == "sandbox0123456789abcdef0123456789abcdef.mailgun.org"

\* The Credentials the calls share: one on the default base, one on the EU base
CredsInputs ==
    {Unwrap(x) : x \in {y \in {new(KeyOfBuilderTest, SandboxDomain),
                                with_base(EU_API, Key35, "example.org")} : IsSome(y)}}

ExampleMessage ==
    [to |-> <<address("target@example.org")>>, cc |-> <<>>, bcc |-> <<>>,
     subject |-> "sample subject", body |-> Text("hello world"), options |-> <<>>]

TaggedMessage ==
    [to |-> <<address("timmy@aksdfa32undkjns.com")>>, cc |-> <<>>, bcc |-> <<>>,
     subject |-> "Test email", body |-> Text(""), options |-> <<Tag("Important")>>]

SendInputs ==
    { [sender |-> address("sender@example.org"), msg |-> ExampleMessage],
      [sender |-> name_address("Nick Testla", "nick@aksdfa32undkjns.com"),
       msg |-> TaggedMessage] }

AddressToValidate == "james.earl.jones@gmail.com"

TemplateInputs ==
    { [name |-> "mytemplate12", description |-> "template description12",
       template |-> Some("{{fname}} {{lname}}"), tag |-> None,
       engine |-> Some("handlebars"), comment |-> None] }

TemplateNameInputs == {None, Some("mytemplate12")}

\* The address of a test server (mockito::server_url())
MockServerUrl == "http://127.0.0.1:1234"

\* The URLs of the request builders a caller supplies
SendBuilderUrls(c) ==
    { MockServerUrl \o "/" \o c.domain \o "/" \o MESSAGES_ENDPOINT,
      MAILGUN_API \o "/" \o c.domain \o "/" \o MESSAGES_ENDPOINT }
CreateTemplateBuilderUrls(c) ==
    { MockServerUrl \o "/" \o c.domain \o "/" \o TEMPLATES_ENDPOINT,
      c.api_base \o "/" \o c.domain \o "/" \o TEMPLATES_ENDPOINT }
GetTemplatesBuilderUrls(c) ==
    { c.api_base \o "/" \o c.domain \o "/" \o TEMPLATES_ENDPOINT,
      c.api_base \o "/" \o c.domain \o "/" \o TEMPLATES_ENDPOINT \o "/mytemplate12" }

SendBody ==
    [id |-> "<0123456789abcdef.0123456789abcdef@" \o SandboxDomain \o ">",
     message |-> "Queued. Thank you."]
ErrorBody == [message |-> "Forbidden"]
ValidationBody ==
    [address |-> AddressToValidate, is_disposable_address |-> FALSE,
     is_role_address |-> FALSE, is_valid |-> TRUE]
TemplateJson(name) ==
    [createdAt |-> "Tue, 03 Nov 2026 00:00:00 UTC", createdBy |-> "",
     description |-> "template description12", name |-> name,
     id |-> "46565d87-68b6-4edb-8b3c-34554af4bb77"]
CreateTemplateBody ==
    [message |-> "template has been stored", template |-> TemplateJson("mytemplate12")]
SingleTemplateBody == [template |-> TemplateJson("mytemplate12")]
TemplateListBody == [items |-> <<TemplateJson("mytemplate12"), TemplateJson("other")>>]
VersionJson(tag, active) ==
    [createdAt |-> "Tue, 03 Nov 2026 00:00:00 UTC", engine |-> "handlebars", tag |-> tag,
     comment |-> "", mjml |-> "", active |-> active]
TemplateVersionsJson(name) ==
    [createdAt |-> "Tue, 03 Nov 2026 00:00:00 UTC", createdBy |-> "",
     description |-> "template description12", name |-> name,
     id |-> "46565d87-68b6-4edb-8b3c-34554af4bb77",
     versions |-> <<VersionJson("initial", FALSE), VersionJson("v2", TRUE)>>]
VersionsBody == [template |-> TemplateVersionsJson("mytemplate12")]

StatusInputs == {200, 304, 401}

ServerBodies(op) ==
    IF op = "send" THEN {SendBody, ErrorBody}
    ELSE IF op = "validate" THEN {ValidationBody, ErrorBody}
    ELSE IF op = "create_template" THEN {CreateTemplateBody, ErrorBody}
    ELSE {SingleTemplateBody, TemplateListBody, VersionsBody, ErrorBody}

\* A connection, timeout or TLS failure: no response at all
TransportFailure == [transport |-> "error", status |-> 0, body |-> [none |-> ""]]

\* What the network and the server can answer to one request
ServerAnswers(op) ==
    {TransportFailure}
    \cup {[transport |-> "ok", status |-> st, body |-> b] :
             st \in StatusInputs, b \in ServerBodies(op)}

-----------------------------------------------------------------------------
(* The functions of the crate, by name                                     *)

SendFns == {"email::send_email", "email::send_with_client",
            "email::send_with_request_builder"}
AsyncSendFns == {"email::async_impl::send_email", "email::async_impl::send_with_client",
                 "email::async_impl::send_with_request_builder"}
ValidateFns == {"validation::validate_email", "validation::validate_email_with_client"}
CreateTemplateFns == {"templates::create_template", "templates::create_template_with_client",
                      "templates::create_template_with_request_builder"}
GetTemplatesFns == {"templates::get_templates", "templates::get_templates_with_client",
                    "templates::get_templates_with_request_builder"}

OpOf(fn) ==
    IF fn \in SendFns \cup AsyncSendFns THEN "send"
    ELSE IF fn \in ValidateFns THEN "validate"
    ELSE IF fn \in CreateTemplateFns THEN "create_template"
    ELSE "get_templates"

\* Blocking functions return the Result, async functions a future of it
ModeOf(fn) ==
    IF fn \in SendFns \cup ValidateFns THEN "blocking" ELSE "async"

VariantOf(fn) ==
    IF fn \in {"email::send_email", "email::async_impl::send_email",
               "validation::validate_email", "templates::create_template",
               "templates::get_templates"} THEN "default client"
    ELSE IF fn \in {"email::send_with_client", "email::async_impl::send_with_client",
                    "validation::validate_email_with_client",
                    "templates::create_template_with_client",
                    "templates::get_templates_with_client"} THEN "client"
    ELSE "request builder"

\* res.json() of a call: the deserializer of the function's response type
json(call, body) ==
    IF OpOf(call.fn) = "send" THEN json_SendResponse(body)
    ELSE IF OpOf(call.fn) = "validate" THEN json_ValidationResponse(body)
    ELSE IF OpOf(call.fn) = "create_template" THEN json_CreateTemplateResponse(body)
    ELSE json_for_get_templates(call.args.template_name, body)

\* The `?` chain `.send()?.error_for_status()?`, then `res.json()?` and Ok(parsed):
\* [result, body_read], body_read telling whether json() ran.
Finish(call, answer) ==
    LET sent == send(answer) IN
    IF sent.tag = "Err" THEN [result |-> sent, body_read |-> FALSE]
    ELSE LET checked == error_for_status(Unwrap(sent.value)) IN
         IF checked.tag = "Err" THEN [result |-> checked, body_read |-> FALSE]
         ELSE LET parsed == json(call, Unwrap(checked.value).body) IN
              IF IsSome(parsed) THEN [result |-> Ok(Unwrap(parsed)), body_read |-> TRUE]
              ELSE [result |-> Err("decode", None), body_read |-> TRUE]

-----------------------------------------------------------------------------
(* Dispatch calls                                                          *)

IdleCall == [pc |-> "idle", fn |-> "", args |-> <<>>, result |-> None, body_read |-> FALSE]

CallInit ==
    /\ creds \in CredsInputs
    /\ calls = [c \in CallIds |-> IdleCall]
    /\ wire = [c \in CallIds |-> <<>>]
    /\ server = [c \in CallIds |-> None]

\* send() that issues the request a second time
Issue_twice(w, request) == Append(Append(w, request), request)

\* RequestBuilder::send(): the request goes on the network
Issue(w, request) == Append(w, request)

\* A caller enters fn with args; the function runs up to its send()
Start(c, fn, args, request) ==
    /\ calls[c].pc = "idle"
    /\ calls' = [calls EXCEPT ![c] = [pc |-> "awaiting", fn |-> fn, args |-> args,
                                      result |-> None, body_read |-> FALSE]]
    /\ wire' = [wire EXCEPT ![c] = Issue(@, request)]
    /\ UNCHANGED <<creds, server>>

\* A return that keeps the response in one slot shared by the finished calls
Return_shared_slot(c, answer, finished) ==
    /\ server' = [server EXCEPT ![c] = Some(answer)]
    /\ calls' = [d \in CallIds |->
                    IF d = c \/ calls[d].pc = "done"
                    THEN [calls[d] EXCEPT !.pc = "done",
                                          !.result = Some(finished.result),
                                          !.body_read = finished.body_read]
                    ELSE calls[d]]
    /\ UNCHANGED <<creds, wire>>

\* The answer to the call's request arrives; the function runs to its return
Return(c, answer, finished) ==
    /\ server' = [server EXCEPT ![c] = Some(answer)]
    /\ calls' = [calls EXCEPT ![c].pc = "done",
                              ![c].result = Some(finished.result),
                              ![c].body_read = finished.body_read]
    /\ UNCHANGED <<creds, wire>>

SendEmail(c) ==
    \E a \in SendInputs :
        Start(c, "email::send_email", a, send_email(creds, a.sender, a.msg))

SendWithClient(c) ==
    \E a \in SendInputs :
        Start(c, "email::send_with_client", a, send_with_client(creds, a.sender, a.msg))

SendWithRequestBuilder(c) ==
    \E a \in SendInputs, url \in SendBuilderUrls(creds) :
        Start(c, "email::send_with_request_builder",
              [sender |-> a.sender, msg |-> a.msg, request_builder |-> client_post(url)],
              send_with_request_builder(client_post(url), creds, a.sender, a.msg))

\* email.rs lines 134-141
SendReturn(c) ==
    /\ calls[c].pc = "awaiting"
    /\ calls[c].fn \in SendFns
    /\ \E answer \in ServerAnswers("send") :
           Return(c, answer, Finish(calls[c], answer))

AsyncSendEmail(c) ==
    \E a \in SendInputs :
        Start(c, "email::async_impl::send_email", a, async_send_email(creds, a.sender, a.msg))

AsyncSendWithClient(c) ==
    \E a \in SendInputs :
        Start(c, "email::async_impl::send_with_client", a,
              async_send_with_client(creds, a.sender, a.msg))

AsyncSendWithRequestBuilder(c) ==
    \E a \in SendInputs, url \in SendBuilderUrls(creds) :
        Start(c, "email::async_impl::send_with_request_builder",
              [sender |-> a.sender, msg |-> a.msg, request_builder |-> client_post(url)],
              async_send_with_request_builder(client_post(url), creds, a.sender, a.msg))

\* email.rs lines 322-330
AsyncSendReturn(c) ==
    /\ calls[c].pc = "awaiting"
    /\ calls[c].fn \in AsyncSendFns
    /\ \E answer \in ServerAnswers("send") :
           Return(c, answer, Finish(calls[c], answer))

ValidateEmail(c) ==
    Start(c, "validation::validate_email", [address |-> AddressToValidate],
          validate_email(creds, AddressToValidate))

ValidateEmailWithClient(c) ==
    Start(c, "validation::validate_email_with_client", [address |-> AddressToValidate],
          validate_email_with_client(creds, AddressToValidate))

\* validation.rs lines 45-52
ValidateReturn(c) ==
    /\ calls[c].pc = "awaiting"
    /\ calls[c].fn \in ValidateFns
    /\ \E answer \in ServerAnswers("validate") :
           Return(c, answer, Finish(calls[c], answer))

CreateTemplate(c) ==
    \E t \in TemplateInputs :
        Start(c, "templates::create_template", [template |-> t], create_template(creds, t))

CreateTemplateWithClient(c) ==
    \E t \in TemplateInputs :
        Start(c, "templates::create_template_with_client", [template |-> t],
              create_template_with_client(creds, t))

CreateTemplateWithRequestBuilder(c) ==
    \E t \in TemplateInputs, url \in CreateTemplateBuilderUrls(creds) :
        Start(c, "templates::create_template_with_request_builder",
              [template |-> t, request_builder |-> client_post(url)],
              create_template_with_request_builder(client_post(url), creds, t))

\* templates.rs lines 116-124
CreateTemplateReturn(c) ==
    /\ calls[c].pc = "awaiting"
    /\ calls[c].fn \in CreateTemplateFns
    /\ \E answer \in ServerAnswers("create_template") :
           Return(c, answer, Finish(calls[c], answer))

GetTemplates(c) ==
    \E n \in TemplateNameInputs, v \in BOOLEAN :
        Start(c, "templates::get_templates",
              [template_name |-> n, do_fetch_versions |-> v], get_templates(creds, n, v))

GetTemplatesWithClient(c) ==
    \E n \in TemplateNameInputs, v \in BOOLEAN :
        Start(c, "templates::get_templates_with_client",
              [template_name |-> n, do_fetch_versions |-> v],
              get_templates_with_client(creds, n, v))

GetTemplatesWithRequestBuilder(c) ==
    \E n \in TemplateNameInputs, url \in GetTemplatesBuilderUrls(creds) :
        Start(c, "templates::get_templates_with_request_builder",
              [template_name |-> n, request_builder |-> client_get(url)],
              get_templates_with_request_builder(client_get(url), creds, n))

\* templates.rs lines 161-177
GetTemplatesReturn(c) ==
    /\ calls[c].pc = "awaiting"
    /\ calls[c].fn \in GetTemplatesFns
    /\ \E answer \in ServerAnswers("get_templates") :
           Return(c, answer, Finish(calls[c], answer))

\* The Messages handed to a send: those of MessageInputs that have a subject
SentMessageInputs == {m \in MessageInputs : m.subject # ""}

\* The sender and Message of a send, before the call
FormInit ==
    /\ msg \in SentMessageInputs
    /\ psender \in AddressInputs
    /\ pstage = "start"
    /\ params = EmptyMap

\* The Credentials and request builder of the send whose form is observed
FormCreds == Unwrap(new(KeyOfBuilderTest, SandboxDomain))
FormRequestBuilder ==
    client_post(MockServerUrl \o "/" \o FormCreds.domain \o "/" \o MESSAGES_ENDPOINT)

\* email.rs lines 131-137: the form of the request send_with_request_builder sends
SendForm ==
    /\ pstage = "start"
    /\ params' = Unwrap(send_with_request_builder(FormRequestBuilder, FormCreds,
                                                   psender, msg).form)
    /\ pstage' = "submitted"
    /\ UNCHANGED <<msg, psender>>

-----------------------------------------------------------------------------
(* Specifications                                                          *)

CredIdle == cargs = <<>> /\ cstage = "unused" /\ cout = None
ParamIdle == msg = <<>> /\ pstage = "unused" /\ params = EmptyMap /\ psender = <<>>
CallIdle ==
    /\ creds = <<>>
    /\ calls = [c \in CallIds |-> IdleCall]
    /\ wire = [c \in CallIds |-> <<>>]
    /\ server = [c \in CallIds |-> None]

\* The dispatch functions, called on one shared Credentials value
Init == CredIdle /\ ParamIdle /\ CallInit

CallNext ==
    \E c \in CallIds :
        \/ SendEmail(c)
        \/ SendWithClient(c)
        \/ SendWithRequestBuilder(c)
        \/ SendReturn(c)
        \/ AsyncSendEmail(c)
        \/ AsyncSendWithClient(c)
        \/ AsyncSendWithRequestBuilder(c)
        \/ AsyncSendReturn(c)
        \/ ValidateEmail(c)
        \/ ValidateEmailWithClient(c)
        \/ ValidateReturn(c)
        \/ CreateTemplate(c)
        \/ CreateTemplateWithClient(c)
        \/ CreateTemplateWithRequestBuilder(c)
        \/ CreateTemplateReturn(c)
        \/ GetTemplates(c)
        \/ GetTemplatesWithClient(c)
        \/ GetTemplatesWithRequestBuilder(c)
        \/ GetTemplatesReturn(c)

Next == CallNext /\ UNCHANGED <<credVars, paramVars>>

Spec == Init /\ [][Next]_vars

\* Credentials construction, over the constructor's inputs
InitCreds == CredInit /\ ParamIdle /\ CallIdle

NextCreds ==
    /\ \/ CredentialsWithBase
       \/ CredentialsNew
       \/ DispatchAfterConstruction
    /\ UNCHANGED <<paramVars, callVars>>

SpecCreds == InitCreds /\ [][NextCreds]_vars

\* Message::to_params, over the Message inputs
InitParams == CredIdle /\ ParamInit /\ CallIdle

NextParams == ToParams /\ UNCHANGED <<credVars, callVars>>

SpecParams == InitParams /\ [][NextParams]_vars

\* The form a send submits, over the sender and Message inputs
InitForm == CredIdle /\ FormInit /\ CallIdle

NextForm == SendForm /\ UNCHANGED <<credVars, callVars>>

SpecForm == InitForm /\ [][NextForm]_vars

-----------------------------------------------------------------------------
(* Claims about Credentials construction (SpecCreds)                       *)

HasHttpScheme(s) == StartsWith(s, "http://") \/ StartsWith(s, "https://")
HasSeparator(s) == \E i \in 1..Len(s) : SubSeq(s, i, i) = "."
Holds(c, a) == c.api_base = a.api_base /\ c.api_key = a.api_key /\ c.domain = a.domain

C5_RepositoryCredentialsAccepted ==
    cargs \in {ExampleArgs, UnauthorizedTestArgs, ValidationTestArgs} => cstage # "panicked"

-----------------------------------------------------------------------------
(* Claims about Message::to_params (SpecParams)                            *)

\* C6: the mapping always has 'subject' = the message's subject, and exactly
\* the body keys of the active body variant with the variant's content.
C6_SubjectAndBody ==
    pstage = "mapped" =>
        /\ "subject" \in DOMAIN params
        /\ params["subject"] = msg.subject
        /\ msg.body[1] = "Html" =>
               /\ "html" \in DOMAIN params /\ params["html"] = msg.body[2]
               /\ "text" \notin DOMAIN params
        /\ msg.body[1] = "Text" =>
               /\ "text" \in DOMAIN params /\ params["text"] = msg.body[2]
               /\ "html" \notin DOMAIN params
        /\ msg.body[1] = "HtmlAndText" =>
               /\ "html" \in DOMAIN params /\ params["html"] = msg.body[2]
               /\ "text" \in DOMAIN params /\ params["text"] = msg.body[3]

\* An empty subject, an Html body and a header named "tml" (key "h:tml")
C6_Witness ==
    /\ pstage = "mapped"
    /\ msg.subject = ""
    /\ msg.body[1] = "Html"
    /\ \E i \in 1..Len(msg.options) : msg.options[i] = Header("tml", "x")
    /\ params["subject"] = ""

Rendered(e) ==
    IF e.name = None THEN e.address ELSE e.name[1] \o " <" \o e.address \o ">"

RECURSIVE CommaSeparated(_)
CommaSeparated(list) ==
    IF Len(list) = 1 THEN Rendered(list[1])
    ELSE CommaSeparated(SubSeq(list, 1, Len(list) - 1)) \o "," \o Rendered(list[Len(list)])

RecipientsMapped(field, list) ==
    IF Len(list) = 0 THEN field \notin DOMAIN params
    ELSE field \in DOMAIN params /\ params[field] = CommaSeparated(list)

\* C7: a non-empty to/cc/bcc list is stored under its field name as the
\* rendered addresses joined with ',' in list order; an empty list's key is absent.
C7_Recipients ==
    pstage = "mapped" =>
        /\ RecipientsMapped("to", msg.to)
        /\ RecipientsMapped("cc", msg.cc)
        /\ RecipientsMapped("bcc", msg.bcc)

\* tests::message_recipients, with the named address first in cc and no bcc
C7_Witness ==
    /\ pstage = "mapped"
    /\ msg.cc = <<name_address("Tim", "woo@woah.com"), address("foo@bar.com")>>
    /\ msg.to = <<>> /\ msg.bcc = <<>>
    /\ params["cc"] = "Tim <woo@woah.com>,foo@bar.com"
    /\ "bcc" \notin DOMAIN params

Rfc2822Of(instant) ==
    IF instant = 1431648 THEN "Sat, 17 Jan 1970 13:40:48 +0000"
    ELSE "Fri, 15 May 2015 00:00:00 +0000"

KeyProducedBy(opt) ==
    CASE opt[1] = "TestMode" -> "o:testmode"
      [] opt[1] = "DeliveryTime" -> "o:deliverytime"
      [] opt[1] = "Header" -> "h:" \o opt[2]
      [] opt[1] = "Tag" -> "o:tag"

ValueProducedBy(opt) ==
    CASE opt[1] = "TestMode" -> "yes"
      [] opt[1] = "DeliveryTime" -> Rfc2822Of(opt[2])
      [] opt[1] = "Header" -> opt[3]
      [] opt[1] = "Tag" -> opt[2]

CoreKeys == {"from", "to", "cc", "bcc", "subject", "html", "text"}

\* C8: every key of the mapping outside the core keys is the key of some option
\* of the list, every option's key is present, and its value is that of the
\* last option of the list producing that key.
C8_Options ==
    pstage = "mapped" =>
        /\ \A k \in (DOMAIN params) \ CoreKeys :
              \E i \in 1..Len(msg.options) : KeyProducedBy(msg.options[i]) = k
        /\ \A i \in 1..Len(msg.options) :
              LET k == KeyProducedBy(msg.options[i])
                  last == CHOOSE j \in 1..Len(msg.options) :
                              /\ KeyProducedBy(msg.options[j]) = k
                              /\ \A l \in (j + 1)..Len(msg.options) :
                                    KeyProducedBy(msg.options[l]) # k
              IN  /\ k \in DOMAIN params
                  /\ k \notin CoreKeys
                  /\ params[k] = ValueProducedBy(msg.options[last])

\* Two headers of the same name: the later value is the one stored
C8_Witness ==
    /\ pstage = "mapped"
    /\ msg.options = <<Header("X-For", "Fizz"), Header("X-For", "Buzz")>>
    /\ params["h:X-For"] = "Buzz"

-----------------------------------------------------------------------------
(* Claims about the dispatch functions (Spec)                              *)

EndpointOf(op) == IF op = "send" THEN "messages" ELSE "templates"

\* C1: send_email / send_with_client (blocking and async) and create_template /
\* create_template_with_client send their request to
\* {creds.api_base}/{creds.domain}/{endpoint}, also for a non-default base.
C1_UrlFromCredentials ==
    \A c \in CallIds :
        ( /\ calls[c].pc # "idle"
          /\ OpOf(calls[c].fn) \in {"send", "create_template"}
          /\ VariantOf(calls[c].fn) # "request builder" )
        => wire[c][1].url =
               creds.api_base \o "/" \o creds.domain \o "/" \o EndpointOf(OpOf(calls[c].fn))

SameTemplate(t, j) ==
    /\ t.created_at = j.createdAt /\ t.created_by = j.createdBy
    /\ t.description = j.description /\ t.name = j.name /\ t.id = j.id

\* The body is the JSON of the call's response type
BodyMatches(call, body) ==
    CASE OpOf(call.fn) = "send" -> body = SendBody
      [] OpOf(call.fn) = "create_template" -> body = CreateTemplateBody
      [] OpOf(call.fn) = "get_templates" ->
            IF call.args.template_name = None THEN body = TemplateListBody
            ELSE body \in {SingleTemplateBody, VersionsBody}

\* The value returned has the fields of the body
ValueOfBody(call, v, body) ==
    CASE OpOf(call.fn) = "send" -> v.id = body.id /\ v.message = body.message
      [] OpOf(call.fn) = "create_template" ->
            v.message = body.message /\ SameTemplate(v.template, body.template)
      [] OpOf(call.fn) = "get_templates" ->
            IF call.args.template_name = None
            THEN /\ Len(v.items) = Len(body.items)
                 /\ \A i \in 1..Len(v.items) : SameTemplate(v.items[i], body.items[i])
            ELSE Len(v.items) = 1 /\ SameTemplate(v.items[1], body.template)

\* The four outcomes of a finished call, with failing the set of statuses
\* that are reported as errors
FourOutcomes(c, failing) ==
    LET call == calls[c]
        a == Unwrap(server[c])
        r == Unwrap(call.result)
    IN  CASE a.transport = "error" ->
                r.tag = "Err" /\ r.kind = "transport" /\ ~ call.body_read
          [] a.transport = "ok" /\ a.status \in failing ->
                /\ r.tag = "Err" /\ r.kind = "status" /\ r.status = <<a.status>>
                /\ ~ call.body_read
          [] a.transport = "ok" /\ a.status \notin failing /\ ~ BodyMatches(call, a.body) ->
                r.tag = "Err" /\ r.kind = "decode" /\ call.body_read
          [] a.transport = "ok" /\ a.status \notin failing /\ BodyMatches(call, a.body) ->
                r.tag = "Ok" /\ call.body_read /\ ValueOfBody(call, Unwrap(r.value), a.body)

NotSuccess == (100..599) \ (200..299)
ClientOrServerError == 400..599

\* C2 as stated: a finished send / create_template / get_templates call ended
\* in: transport failure -> Err(transport); non-2xx status -> Err(that status),
\* body not deserialized; 2xx and a body that does not match -> Err(decode);
\* 2xx and a matching body -> Ok(value) with the body's fields.
C2_AsStated ==
    \A c \in CallIds :
        (calls[c].pc = "done" /\ OpOf(calls[c].fn) # "validate")
        => FourOutcomes(c, NotSuccess)

\* C2 amended: the status outcome is that of a 4xx or 5xx status; a response
\* of any other status is deserialized like a 2xx one.
C2_Outcomes ==
    \A c \in CallIds :
        (calls[c].pc = "done" /\ OpOf(calls[c].fn) # "validate")
        => FourOutcomes(c, ClientOrServerError)

\* A 401 answer whose body would have matched: Err with status 401, body unread
C2_Witness ==
    \E c \in CallIds :
        /\ calls[c].pc = "done"
        /\ calls[c].fn = "email::send_with_request_builder"
        /\ Unwrap(server[c]).status = 401
        /\ Unwrap(server[c]).body = SendBody
        /\ Unwrap(calls[c].result).status = <<401>>
        /\ ~ calls[c].body_read

\* C3: a call that has started has put exactly one request on the network,
\* whatever its outcome, and has returned only after the answer to that request.
C3_OneRequestPerCall ==
    \A c \in CallIds :
        /\ Len(wire[c]) = (IF calls[c].pc = "idle" THEN 0 ELSE 1)
        /\ (calls[c].pc = "done") <=> IsSome(server[c])
        /\ (calls[c].pc = "done") <=> IsSome(calls[c].result)

\* Both calls returned, one after a transport failure, one after a 401
C3_Witness ==
    /\ \A c \in CallIds : calls[c].pc = "done" /\ Len(wire[c]) = 1
    /\ \E c \in CallIds : Unwrap(calls[c].result).kind = "transport"
    /\ \E c \in CallIds : Unwrap(calls[c].result).kind = "status"

\* C9: get_templates_with_client sends a GET to .../templates/{name}/versions
\* for Some(name) and do_fetch_versions, to .../templates/{name} for Some(name)
\* without it, and to .../templates for None.
C9_TemplatesUrl ==
    \A c \in CallIds :
        (calls[c].pc # "idle" /\ calls[c].fn = "templates::get_templates_with_client")
        => LET a == calls[c].args
               root == creds.api_base \o "/" \o creds.domain \o "/templates"
           IN  /\ wire[c][1].method = "GET"
               /\ wire[c][1].url =
                      (CASE a.template_name # None /\ a.do_fetch_versions ->
                                root \o "/" \o a.template_name[1] \o "/versions"
                         [] a.template_name # None /\ ~ a.do_fetch_versions ->
                                root \o "/" \o a.template_name[1]
                         [] a.template_name = None -> root)

\* A named template with version fetch, on the EU base
C9_Witness ==
    \E c \in CallIds :
        /\ calls[c].fn = "templates::get_templates_with_client"
        /\ calls[c].args.template_name = Some("mytemplate12")
        /\ calls[c].args.do_fetch_versions
        /\ wire[c][1].url = "https://api.eu.mailgun.net/v3/example.org/templates/mytemplate12/versions"

Ops == {"send", "validate", "create_template", "get_templates"}
Variants == {"default client", "client", "request builder"}

\* A caller can enter, on the idle call c, the given variant of the operation
Offered(c, op, variant) ==
    ENABLED ( /\ Next
              /\ calls'[c].pc = "awaiting"
              /\ OpOf(calls'[c].fn) = op
              /\ VariantOf(calls'[c].fn) = variant )

\* The functions that are variants of one another
FamilyOf(fn) ==
    CHOOSE F \in {SendFns, AsyncSendFns, ValidateFns, CreateTemplateFns, GetTemplatesFns} :
        fn \in F

\* What a call was given besides the client or request builder
PayloadOf(call) ==
    CASE OpOf(call.fn) = "send" -> <<call.args.sender, call.args.msg>>
      [] OpOf(call.fn) = "validate" -> <<call.args.address>>
      [] OpOf(call.fn) = "create_template" -> <<call.args.template>>
      [] OpOf(call.fn) = "get_templates" -> <<call.args.template_name>>

\* Two calls of variants of one function, with the same payload and a request
\* for the same URL and method, submit the same parameters and authentication
\* and map the same answer to the same result
VariantsAgree ==
    \A c1, c2 \in CallIds :
        ( /\ c1 # c2
          /\ calls[c1].pc # "idle" /\ calls[c2].pc # "idle"
          /\ FamilyOf(calls[c1].fn) = FamilyOf(calls[c2].fn)
          /\ PayloadOf(calls[c1]) = PayloadOf(calls[c2])
          /\ wire[c1][1].url = wire[c2][1].url
          /\ wire[c1][1].method = wire[c2][1].method )
        => /\ wire[c1][1].form = wire[c2][1].form
           /\ wire[c1][1].auth = wire[c2][1].auth
           /\ (calls[c1].pc = "done" /\ calls[c2].pc = "done" /\ server[c1] = server[c2])
                  => calls[c1].result = calls[c2].result

\* C10 as stated: every operation is offered in the three variants, and the
\* variants agree.
C10_AsStated ==
    /\ \A c \in CallIds : calls[c].pc = "idle" =>
           \A op \in Ops, variant \in Variants : Offered(c, op, variant)
    /\ VariantsAgree

\* C10 amended: send email, create template and list templates are offered in
\* the three variants, validate address only with the default client and with a
\* caller-supplied client; the variants that exist agree.
C10_Variants ==
    /\ \A c \in CallIds : calls[c].pc = "idle" =>
           \A op \in Ops, variant \in Variants :
               Offered(c, op, variant) <=> ~ (op = "validate" /\ variant = "request builder")
    /\ VariantsAgree

\* send_email and send_with_request_builder on the same URL, same payload, both
\* answered 200 with the same body: the same form, the same Ok value
C10_Witness ==
    \E c1, c2 \in CallIds :
        /\ calls[c1].fn = "email::send_email" /\ calls[c1].pc = "done"
        /\ calls[c2].fn = "email::send_with_request_builder" /\ calls[c2].pc = "done"
        /\ PayloadOf(calls[c1]) = PayloadOf(calls[c2])
        /\ wire[c1][1].url = wire[c2][1].url
        /\ server[c1] = server[c2]
        /\ Unwrap(calls[c1].result).tag = "Ok"
        /\ wire[c1][1].form = wire[c2][1].form
        /\ calls[c1].result = calls[c2].result

Modes == {"blocking", "async"}

\* A caller can enter, on the idle call c, the operation in the given mode
OfferedInMode(c, op, mode) ==
    ENABLED ( /\ Next
              /\ calls'[c].pc = "awaiting"
              /\ OpOf(calls'[c].fn) = op
              /\ ModeOf(calls'[c].fn) = mode )

\* A blocking and an async send of the same variant, with the same sender and
\* Message and a request for the same URL and method, submit the same
\* parameters ('from' among them) and authentication and map the same answer
\* to the same result
ModesAgree ==
    \A c1, c2 \in CallIds :
        ( /\ calls[c1].pc # "idle" /\ calls[c2].pc # "idle"
          /\ calls[c1].fn \in SendFns /\ calls[c2].fn \in AsyncSendFns
          /\ VariantOf(calls[c1].fn) = VariantOf(calls[c2].fn)
          /\ PayloadOf(calls[c1]) = PayloadOf(calls[c2])
          /\ wire[c1][1].url = wire[c2][1].url
          /\ wire[c1][1].method = wire[c2][1].method )
        => /\ wire[c1] = wire[c2]
           /\ IsSome(wire[c2][1].form)
           /\ "from" \in DOMAIN Unwrap(wire[c2][1].form)
           /\ (calls[c1].pc = "done" /\ calls[c2].pc = "done" /\ server[c1] = server[c2])
                  => /\ calls[c1].result = calls[c2].result
                     /\ calls[c1].body_read = calls[c2].body_read

\* C11 as stated: the blocking and the async send are observationally
\* equivalent, and every dispatch operation is offered in both modes.
C11_AsStated ==
    /\ \A c \in CallIds : calls[c].pc = "idle" =>
           \A op \in Ops, mode \in Modes : OfferedInMode(c, op, mode)
    /\ ModesAgree

\* C11 amended: send email is offered blocking and async and the two are
\* observationally equivalent; validate address is offered blocking only,
\* create template and list templates async only.
C11_Modes ==
    /\ \A c \in CallIds : calls[c].pc = "idle" =>
           \A op \in Ops, mode \in Modes :
               OfferedInMode(c, op, mode) <=>
                   \/ op = "send"
                   \/ op = "validate" /\ mode = "blocking"
                   \/ op \in {"create_template", "get_templates"} /\ mode = "async"
    /\ ModesAgree

\* A blocking and an async send_with_request_builder of one message on one URL,
\* both answered 401: the same form with 'from', the same Err
C11_Witness ==
    \E c1, c2 \in CallIds :
        /\ calls[c1].fn = "email::send_with_request_builder" /\ calls[c1].pc = "done"
        /\ calls[c2].fn = "email::async_impl::send_with_request_builder"
        /\ calls[c2].pc = "done"
        /\ PayloadOf(calls[c1]) = PayloadOf(calls[c2])
        /\ wire[c1][1].url = wire[c2][1].url
        /\ server[c1] = server[c2]
        /\ Unwrap(server[c1]).transport = "ok" /\ Unwrap(server[c1]).status = 401
        /\ Unwrap(wire[c2][1].form)["from"] = "Nick Testla <nick@aksdfa32undkjns.com>"
        /\ wire[c1] = wire[c2]
        /\ Unwrap(calls[c2].result).tag = "Err"
        /\ calls[c1].result = calls[c2].result

-----------------------------------------------------------------------------
(* Claims about concurrent calls on one Credentials (Spec)                 *)

\* The request a call builds from its own function, its own arguments and the
\* Credentials it was given
RequestOf(call) ==
    LET a == call.args
        fn == call.fn
    IN  CASE fn = "email::send_email" -> send_email(creds, a.sender, a.msg)
          [] fn = "email::send_with_client" -> send_with_client(creds, a.sender, a.msg)
          [] fn = "email::send_with_request_builder" ->
                send_with_request_builder(a.request_builder, creds, a.sender, a.msg)
          [] fn = "email::async_impl::send_email" -> async_send_email(creds, a.sender, a.msg)
          [] fn = "email::async_impl::send_with_client" ->
                async_send_with_client(creds, a.sender, a.msg)
          [] fn = "email::async_impl::send_with_request_builder" ->
                async_send_with_request_builder(a.request_builder, creds, a.sender, a.msg)
          [] fn = "validation::validate_email" -> validate_email(creds, a.address)
          [] fn = "validation::validate_email_with_client" ->
                validate_email_with_client(creds, a.address)
          [] fn = "templates::create_template" -> create_template(creds, a.template)
          [] fn = "templates::create_template_with_client" ->
                create_template_with_client(creds, a.template)
          [] fn = "templates::create_template_with_request_builder" ->
                create_template_with_request_builder(a.request_builder, creds, a.template)
          [] fn = "templates::get_templates" ->
                get_templates(creds, a.template_name, a.do_fetch_versions)
          [] fn = "templates::get_templates_with_client" ->
                get_templates_with_client(creds, a.template_name, a.do_fetch_versions)
          [] fn = "templates::get_templates_with_request_builder" ->
                get_templates_with_request_builder(a.request_builder, creds, a.template_name)

\* What a call has submitted is the request of its own arguments; what it has
\* returned is the outcome of the answer to its own request
OwnRequestAndResult ==
    \A c \in CallIds :
        /\ calls[c].pc # "idle" => wire[c] = <<RequestOf(calls[c])>>
        /\ calls[c].pc = "done" =>
               /\ calls[c].result = Some(Finish(calls[c], Unwrap(server[c])).result)
               /\ calls[c].body_read = Finish(calls[c], Unwrap(server[c])).body_read

\* The step changes something of call c
Touches(c) == calls'[c] # calls[c] \/ wire'[c] # wire[c] \/ server'[c] # server[c]

\* A step leaves the Credentials alone and belongs to one call: it changes
\* nothing of any other call, nothing that the call has already submitted, and
\* nothing of a call that has returned
OneCallPerStep ==
    /\ creds' = creds
    /\ \A c \in CallIds :
           Touches(c) =>
               /\ \A d \in CallIds \ {c} : ~ Touches(d)
               /\ calls[c].pc # "idle" =>
                      /\ wire'[c] = wire[c]
                      /\ calls'[c].fn = calls[c].fn
                      /\ calls'[c].args = calls[c].args
               /\ calls[c].pc # "done"

\* C12: for concurrent dispatch calls on one shared Credentials and any
\* interleaving of their steps, the Credentials are never modified, and each
\* call's submitted request and returned result are those of its own arguments
\* and of the server's answer to its own request.
C12_CallsIndependent == [] OwnRequestAndResult /\ [][OneCallPerStep]_vars

\* Two calls overlap: call 1, a send, is still waiting for its answer while
\* call 2, a template creation that started with call 1 in any state, has
\* returned Ok; each carries its own parameters
C12_Witness ==
    /\ calls[1].pc = "awaiting" /\ calls[1].fn = "email::async_impl::send_with_request_builder"
    /\ calls[2].pc = "done" /\ calls[2].fn = "templates::create_template_with_request_builder"
    /\ Unwrap(calls[2].result).tag = "Ok"
    /\ Unwrap(wire[1][1].form)["from"] = Rendered(calls[1].args.sender)
    /\ Unwrap(wire[2][1].form)["name"] = calls[2].args.template.name
    /\ "from" \notin DOMAIN Unwrap(wire[2][1].form)

-----------------------------------------------------------------------------
(* Claims about authentication (Spec)                                      *)

\* C13: every request a dispatch function has put on the network, through a
\* default client, a caller's client or a caller's request builder, carries
\* HTTP Basic authentication with the username "api" and, as password, the
\* api_key of the Credentials the call was given.
C13_BasicAuth ==
    \A c \in CallIds :
        \A i \in 1..Len(wire[c]) :
            /\ IsSome(wire[c][i].auth)
            /\ Unwrap(wire[c][i].auth)[1] = "api"
            /\ Unwrap(wire[c][i].auth)[2] = Some(creds.api_key)

\* A template listing through a caller's request builder, which came without
\* authentication, and an address validation, both on the network with the key
\* of the EU Credentials
C13_Witness ==
    /\ creds.api_key = Key35
    /\ calls[1].fn = "templates::get_templates_with_request_builder"
    /\ calls[1].args.request_builder.auth = None
    /\ Len(wire[1]) = 1
    /\ wire[1][1].auth = Some(<<"api", Some(Key35)>>)
    /\ calls[2].fn = "validation::validate_email_with_client"
    /\ Len(wire[2]) = 1
    /\ wire[2][1].auth = Some(<<"api", Some(Key35)>>)

-----------------------------------------------------------------------------
(* Claims about the decoding of template listings (Spec)                   *)

EndsWith(s, suffix) ==
    Len(s) >= Len(suffix) /\ SubSeq(s, Len(s) - Len(suffix) + 1, Len(s)) = suffix

\* What the endpoint behind a listing URL answers: the list of all templates,
\* the versions of one template, or one template
EndpointResponse(url) ==
    IF EndsWith(url, "/" \o TEMPLATES_ENDPOINT) THEN TemplateListBody
    ELSE IF EndsWith(url, "/" \o TEMPLATE_VERSIONS_ENDPOINT) THEN VersionsBody
    ELSE SingleTemplateBody

\* The decoded versions of a template are those of its JSON, in order
SameVersions(t, j) ==
    IF "versions" \in DOMAIN j
    THEN /\ IsSome(t.versions)
         /\ Len(Unwrap(t.versions)) = Len(j.versions)
         /\ \A i \in 1..Len(j.versions) :
                /\ Unwrap(t.versions)[i].tag = j.versions[i].tag
                /\ Unwrap(t.versions)[i].active = j.versions[i].active
    ELSE t.versions = None

\* C14: a template listing whose response passed the status check decodes it
\* in the shape that template_name selects, whatever URL was requested: with a
\* name, a single-template body (a versions body included) becomes a list of
\* exactly that one template and any other body is a decoding error; without a
\* name, a list body is returned item by item, unchanged, and any other body is
\* a decoding error. Through get_templates and get_templates_with_client the
\* shape is the one of the endpoint that was called, so its response decodes.
C14_ListingDecoding ==
    \A c \in CallIds :
        ( /\ calls[c].pc = "done"
          /\ calls[c].fn \in GetTemplatesFns
          /\ Unwrap(server[c]).transport = "ok"
          /\ Unwrap(server[c]).status \notin ClientOrServerError )
        => LET name == calls[c].args.template_name
               body == Unwrap(server[c]).body
               r == Unwrap(calls[c].result)
           IN  /\ IF IsSome(name)
                  THEN IF "template" \in DOMAIN body
                       THEN /\ r.tag = "Ok"
                            /\ Len(Unwrap(r.value).items) = 1
                            /\ SameTemplate(Unwrap(r.value).items[1], body.template)
                            /\ SameVersions(Unwrap(r.value).items[1], body.template)
                       ELSE r.tag = "Err" /\ r.kind = "decode"
                  ELSE IF "items" \in DOMAIN body
                       THEN /\ r.tag = "Ok"
                            /\ Len(Unwrap(r.value).items) = Len(body.items)
                            /\ \A i \in 1..Len(body.items) :
                                   /\ SameTemplate(Unwrap(r.value).items[i], body.items[i])
                                   /\ SameVersions(Unwrap(r.value).items[i], body.items[i])
                       ELSE r.tag = "Err" /\ r.kind = "decode"
               /\ ( /\ VariantOf(calls[c].fn) # "request builder"
                    /\ body = EndpointResponse(wire[c][1].url) )
                  => r.tag = "Ok"

\* Call 1 listed the versions of a named template and got the one template
\* with its two versions; call 2 gave a name together with a request builder
\* for the list-all URL, and the list that came back did not decode
C14_Witness ==
    /\ calls[1].pc = "done" /\ calls[1].fn = "templates::get_templates_with_client"
    /\ calls[1].args.template_name = Some("mytemplate12")
    /\ calls[1].args.do_fetch_versions
    /\ EndsWith(wire[1][1].url, "/mytemplate12/versions")
    /\ Unwrap(server[1]).status = 200 /\ Unwrap(server[1]).body = VersionsBody
    /\ Unwrap(calls[1].result).tag = "Ok"
    /\ Len(Unwrap(Unwrap(calls[1].result).value).items) = 1
    /\ Len(Unwrap(Unwrap(Unwrap(calls[1].result).value).items[1].versions)) = 2
    /\ calls[2].pc = "done" /\ calls[2].fn = "templates::get_templates_with_request_builder"
    /\ calls[2].args.template_name = Some("mytemplate12")
    /\ EndsWith(wire[2][1].url, "/templates")
    /\ Unwrap(server[2]).status = 200 /\ Unwrap(server[2]).body = TemplateListBody
    /\ Unwrap(calls[2].result).tag = "Err" /\ Unwrap(calls[2].result).kind = "decode"

-----------------------------------------------------------------------------
(* Claims about the form a send submits (SpecForm)                         *)

OptionPrefixed(k) == StartsWith(k, "o:") \/ StartsWith(k, "h:")

\* The core keys of the form are those of the sender, recipients, subject and
\* body, with their values
CoreKeysIntact ==
    /\ "from" \in DOMAIN params /\ params["from"] = Rendered(psender)
    /\ RecipientsMapped("to", msg.to)
    /\ RecipientsMapped("cc", msg.cc)
    /\ RecipientsMapped("bcc", msg.bcc)
    /\ "subject" \in DOMAIN params /\ params["subject"] = msg.subject
    /\ "html" \in DOMAIN params <=> msg.body[1] \in {"Html", "HtmlAndText"}
    /\ "text" \in DOMAIN params <=> msg.body[1] \in {"Text", "HtmlAndText"}
    /\ "html" \in DOMAIN params => params["html"] = msg.body[2]
    /\ "text" \in DOMAIN params =>
           params["text"] = IF msg.body[1] = "Text" THEN msg.body[2] ELSE msg.body[3]

\* C15: in the form a send submits, 'from' is the sender's rendering; the keys
\* from, to, cc, bcc, subject, html and text are present or absent, and valued,
\* as the sender, recipients, subject and body alone determine, after any list
\* of options; every key an option produces begins with "o:" or "h:", and so
\* does every key of the form outside those seven.
C15_CoreKeys ==
    pstage = "submitted" =>
        /\ CoreKeysIntact
        /\ \A i \in 1..Len(msg.options) : OptionPrefixed(option_pair(msg.options[i])[1])
        /\ \A k \in DOMAIN params : k \in CoreKeys \/ OptionPrefixed(k)

\* A named sender, an Html body, and as options a header named "tml" and a tag:
\* the form has h:tml beside html, and the sender under from
C15_Witness ==
    /\ pstage = "submitted"
    /\ psender = name_address("Tim", "woo@woah.com")
    /\ msg.body = Html("<body/>")
    /\ msg.options = <<Header("tml", "x"), Tag("Important")>>
    /\ params["from"] = "Tim <woo@woah.com>"
    /\ params["html"] = "<body/>"
    /\ params["h:tml"] = "x"
    /\ params["o:tag"] = "Important"

====
